---- MODULE Spec2Model ----
(***************************************************************************)
(* Model of the redb quick_repair write benchmark (src/main.rs).           *)
(*                                                                         *)
(* The program is one sequential thread: main removes two database files,  *)
(* fills both stores, benchmarks single-record write transactions on each  *)
(* and prints a report.  The state machine below follows main and the      *)
(* functions it calls statement by statement; every call into the storage  *)
(* engine (create, begin_write, open_table, insert, commit) may return an  *)
(* error, which `?` propagates to main and ends the process.               *)
(*                                                                         *)
(* Three specifications share the definitions:                             *)
(*   Spec      - the whole driver, with the compile-time configuration     *)
(*               scaled down (DriverCfg);                                  *)
(*   SpecFill  - the arithmetic of fill_database's successful path, for    *)
(*               the program's real constants and for small ones;          *)
(*   SpecStats - BenchmarkStats::new applied to bounded sequences.         *)
(***************************************************************************)
EXTENDS Integers, Sequences, FiniteSets

\* ------------------------------------------------------------ constants

\* const VALUE_SIZE: usize = 4096
VALUE_SIZE == 4096
\* const BATCH_SIZE: usize = 1000
BATCH_SIZE == 1000
\* const BENCHMARK_WRITES: usize = 10000
BENCHMARK_WRITES == 10000
\* target_size_gb * 1024 * 1024 * 1024: bytes per GiB
GIB == 1024 * 1024 * 1024
\* if batch_counter % 100 == 0
FILL_PROGRESS_EVERY == 100
\* if (i + 1) % 1000 == 0
BENCH_PROGRESS_EVERY == 1000

\* let db_quick_repair_false / db_quick_repair_true
db_quick_repair_false == "benchmark_quick_repair_false.redb"
db_quick_repair_true == "benchmark_quick_repair_true.redb"
Paths == {db_quick_repair_false, db_quick_repair_true}

\* The configuration the program is compiled with.
RealCfg ==
    [VALUE_SIZE |-> VALUE_SIZE, BATCH_SIZE |-> BATCH_SIZE,
     BENCHMARK_WRITES |-> BENCHMARK_WRITES, GIB |-> GIB]

\* --------------------------------------------------------------- bounds

\* largest target_size_gb tried with a scaled configuration
MaxG == 3
\* scaled configurations: value size, batch size, bytes per size unit, writes
MaxValueSize == 3
MaxBatchSize == 3
MaxGib == 7
MaxWrites == 3
\* a measured duration is 0..MaxDur clock ticks
MaxDur == 1
\* SpecStats: sequences of 1..MaxLen durations of 0..MaxStatDur ticks
MaxLen == 4
MaxStatDur == 3
\* a file left over from an earlier run holds at most MaxOld records
MaxOld == 1

\* The driver's scaled configuration.
DriverCfg ==
    [VALUE_SIZE |-> MaxValueSize, BATCH_SIZE |-> MaxBatchSize,
     BENCHMARK_WRITES |-> MaxWrites, GIB |-> MaxGib]

\* SpecFill's scaled configurations.
SmallCfgs ==
    [VALUE_SIZE : 1..MaxValueSize, BATCH_SIZE : 1..MaxBatchSize,
     BENCHMARK_WRITES : {MaxWrites}, GIB : 1..MaxGib]

\* ---------------------------------------------------------------- state

VARIABLES
    cfg,             \* the compile-time configuration in force
    target_size_gb,  \* args.target_size_gb
    main_pc,         \* index of main's current call in MainOrder
    pc,              \* position inside the current call
    err,             \* the error main returned, or NoErr
    fileExists,      \* path -> whether the database file is on disk
    table,           \* path -> keys committed to the file's table
    warnings,        \* paths cleanup_db warned about, in order
    openDbs,         \* paths with a live Database handle
    txns,            \* live write transactions, newest last
    fill,            \* fill_database's locals
    inner,           \* iterations done of `for _ in 0..BATCH_SIZE`
    written,         \* records the current fill_database call inserted
    bench,           \* benchmark_writes' locals
    timing,          \* whether `start` has been taken and not yet read
    max_key,         \* path -> max_key_false / max_key_true, or None
    stats,           \* path -> stats_individual_false / _true, or None
    log,             \* calls main has entered, in order
    inserts,         \* path -> <<caller, key>> of every insert call that succeeded
    commits,         \* every commit that succeeded, in order
    progress,        \* progress lines printed by the current call
    out              \* blocks of the results summary printed, in order

vars ==
    <<cfg, target_size_gb, main_pc, pc, err, fileExists, table, warnings,
      openDbs, txns, fill, inner, written, bench, timing, max_key, stats,
      log, inserts, commits, progress, out>>

\* Option: None, and Some(x)
None == <<>>
Some(x) == <<x>>
\* the report takes no path
NoPath == "-"
NoErr == "NoErr"

\* ------------------------------------------------------- pure functions

RECURSIVE SumSeq(_)
\* durations.iter().sum()
SumSeq(s) == IF s = <<>> THEN 0 ELSE Head(s) + SumSeq(Tail(s))

\* durations.iter().min().unwrap()
MinSeq(s) == CHOOSE x \in {s[k] : k \in 1..Len(s)} : \A k \in 1..Len(s) : x <= s[k]

\* durations.iter().max().unwrap()
MaxSeq(s) == CHOOSE x \in {s[k] : k \in 1..Len(s)} : \A k \in 1..Len(s) : x >= s[k]

\* the average taken over one sample too many
MutAvgOffByOne(total, durations) == total \div (Len(durations) + 1)

\* total_duration / durations.len() as u32: Duration's division truncates
AvgWriteTime(total, durations) == total \div Len(durations)

\* BenchmarkStats::new; writes_per_second = count / seconds is kept as the
\* fraction count / total (the float division cannot fail)
BenchmarkStats_new(durations) ==
    LET total_duration == SumSeq(durations)
    IN  [total_duration |-> total_duration,
         avg_write_time |-> AvgWriteTime(total_duration, durations),
         min_write_time |-> MinSeq(durations),
         max_write_time |-> MaxSeq(durations),
         writes_per_second |-> <<Len(durations), total_duration>>]

\* let target_bytes = target_size_gb * 1024 * 1024 * 1024
TargetBytes == target_size_gb * cfg.GIB

\* let mut key_counter = 0u64; let mut total_bytes = 0u64; let mut batch_counter = 0
FillLocals0 == [key_counter |-> 0, total_bytes |-> 0, batch_counter |-> 0]

\* the loop test with <= for <
MutFillContinueLeq(f) == f.total_bytes <= TargetBytes

\* while total_bytes < target_bytes
FillContinue(f) == f.total_bytes < TargetBytes

\* the value's bytes counted twice
MutFillCountTwice(f) ==
    [f EXCEPT !.key_counter = @ + 1, !.total_bytes = @ + 2 * cfg.VALUE_SIZE]

\* key_counter += 1; total_bytes += VALUE_SIZE as u64
FillCount(f) ==
    [f EXCEPT !.key_counter = @ + 1, !.total_bytes = @ + cfg.VALUE_SIZE]

\* batch_counter += 1
FillBatchDone(f) == [f EXCEPT !.batch_counter = @ + 1]

\* the progress line of fill_database
FillProgressDue(f) == f.batch_counter % FILL_PROGRESS_EVERY = 0

\* table.insert(key, value) on the keys a table holds
TableInsert(keys, key) == keys \cup {key}

\* the records a table holds once `key` is inserted into one holding `n`
\* records with keys 0..n-1
CountInsert(n, key) == IF key < n THEN n ELSE n + 1

\* one iteration of `for _ in 0..BATCH_SIZE` (lines 90-93) whose insert
\* succeeds, on <<locals, records written>>
FillStep(fw) == <<FillCount(fw[1]), CountInsert(fw[2], fw[1].key_counter)>>

RECURSIVE FillBatch(_, _)
\* n iterations of the batch loop, all inserts succeeding: the first half
\* of them, then the rest.  Comparing the intermediate result makes TLC
\* compute it before going on, which keeps the evaluation shallow for
\* BATCH_SIZE iterations.
FillBatch(fw, n) ==
    IF n = 0 THEN fw
    ELSE IF n = 1 THEN FillStep(fw)
    ELSE LET half == FillBatch(fw, n \div 2)
         IN  IF half[2] >= 0 THEN FillBatch(half, n - (n \div 2)) ELSE half

\* -------------------------------------------------------- main's calls

\* main benchmarking the first store before it fills the second
MutMainOrderBenchFirst ==
    << [op |-> "cleanup_db", db_path |-> db_quick_repair_false, quick_repair |-> FALSE],
       [op |-> "cleanup_db", db_path |-> db_quick_repair_true, quick_repair |-> FALSE],
       [op |-> "fill_database", db_path |-> db_quick_repair_false, quick_repair |-> FALSE],
       [op |-> "benchmark_writes", db_path |-> db_quick_repair_false, quick_repair |-> FALSE],
       [op |-> "fill_database", db_path |-> db_quick_repair_true, quick_repair |-> FALSE],
       [op |-> "benchmark_writes", db_path |-> db_quick_repair_true, quick_repair |-> TRUE],
       [op |-> "report", db_path |-> NoPath, quick_repair |-> FALSE] >>

\* main, lines 252-276 and 301-348: the calls in program order, each with
\* the arguments main passes
MainOrder ==
    << [op |-> "cleanup_db", db_path |-> db_quick_repair_false, quick_repair |-> FALSE],
       [op |-> "cleanup_db", db_path |-> db_quick_repair_true, quick_repair |-> FALSE],
       [op |-> "fill_database", db_path |-> db_quick_repair_false, quick_repair |-> FALSE],
       [op |-> "fill_database", db_path |-> db_quick_repair_true, quick_repair |-> FALSE],
       [op |-> "benchmark_writes", db_path |-> db_quick_repair_false, quick_repair |-> FALSE],
       [op |-> "benchmark_writes", db_path |-> db_quick_repair_true, quick_repair |-> TRUE],
       [op |-> "report", db_path |-> NoPath, quick_repair |-> FALSE] >>

\* the call main is in, and its arguments
Call == MainOrder[main_pc]
db_path == Call.db_path
quick_repair == Call.quick_repair

\* the benchmark started at key 0
MutStartKeyZero(path) == 0

\* benchmark_writes' start_key argument: max_key_false / max_key_true
StartKey(path) == max_key[path][1]

\* one write fewer than BENCHMARK_WRITES asked for
MutNumWritesShort == cfg.BENCHMARK_WRITES - 1

\* benchmark_writes' num_writes argument: BENCHMARK_WRITES
num_writes == cfg.BENCHMARK_WRITES

\* the first statement of a call
Entry(op) ==
    CASE op = "cleanup_db" -> "cleanup_db"
      [] op = "fill_database" -> "fill_create"
      [] op = "benchmark_writes" -> "bench_create"
      [] op = "report" -> "report"

\* a call returns Ok to main, which goes on to its next call
Return ==
    /\ main_pc' = main_pc + 1
    /\ pc' = Entry(MainOrder[main_pc + 1].op)
    /\ log' = Append(log, <<MainOrder[main_pc + 1].op, MainOrder[main_pc + 1].db_path>>)

\* the error noted and the call carried on with
MutFailIgnored(e) ==
    /\ err' = e
    /\ UNCHANGED <<cfg, target_size_gb, main_pc, pc, fileExists, table, warnings,
                   openDbs, txns, fill, inner, written, bench, timing, max_key,
                   stats, log, inserts, commits, progress, out>>

\* `?` on an Err(e): the function returns it, main returns it, the process
\* ends; the locals (table, write_txn, db) are dropped on the way out
Fail(e) ==
    /\ err' = e
    /\ pc' = "exit_err"
    /\ txns' = <<>>
    /\ openDbs' = {}
    /\ UNCHANGED <<cfg, target_size_gb, main_pc, fileExists, table, warnings,
                   fill, inner, written, bench, timing, max_key, stats, log,
                   inserts, commits, progress, out>>

\* ------------------------------------------------- the storage engine

\* Database::builder()...create(path): a live handle on the file
OpenDb(dbs, path) == dbs \cup {path}

\* the handle kept open past the call
MutDropDbLeak(dbs, path) == dbs

\* `db` goes out of scope: the handle is closed
DropDb(dbs, path) == dbs \ {path}

\* db.begin_write(): a write transaction with the engine's defaults
BeginWrite(path, caller) ==
    [db_path |-> path, caller |-> caller, quick_repair |-> FALSE,
     quick_repair_set |-> FALSE, table_open |-> FALSE, pending |-> {}]

\* the transaction `write_txn` names
write_txn == txns[Len(txns)]

\* `write_txn` replaced by t
WithTxn(t) == [txns EXCEPT ![Len(txns)] = t]

\* write_txn.commit() consumes the transaction
EndTxn(ts) == SubSeq(ts, 1, Len(ts) - 1)

\* -------------------------------------------------------- cleanup_db

\* cleanup_db with the removal's error propagated instead of warned about
MutCleanupDbFatal ==
    /\ pc = "cleanup_db"
    /\ \/ /\ fileExists[db_path]
          /\ fileExists' = [fileExists EXCEPT ![db_path] = FALSE]
          /\ table' = [table EXCEPT ![db_path] = {}]
          /\ Return
          /\ UNCHANGED <<cfg, target_size_gb, err, warnings, openDbs, txns, fill,
                         inner, written, bench, timing, max_key, stats, inserts,
                         commits, progress, out>>
       \/ Fail("remove_file")

\* cleanup_db, lines 223-227: fs::remove_file fails when the file is absent
\* and may fail when it is present; a failure is only warned about
CleanupDb ==
    /\ pc = "cleanup_db"
    /\ \E removed \in BOOLEAN :
        /\ removed => fileExists[db_path]
        /\ fileExists' = IF removed THEN [fileExists EXCEPT ![db_path] = FALSE]
                         ELSE fileExists
        /\ table' = IF removed THEN [table EXCEPT ![db_path] = {}] ELSE table
        /\ warnings' = IF removed THEN warnings ELSE Append(warnings, db_path)
    /\ Return
    /\ UNCHANGED <<cfg, target_size_gb, err, openDbs, txns, fill, inner, written,
                   bench, timing, max_key, stats, inserts, commits, progress, out>>

\* ----------------------------------------------------- fill_database

\* lines 64-81: create the store, initialise the locals
FillCreate ==
    /\ pc = "fill_create"
    /\ \/ /\ openDbs' = OpenDb(openDbs, db_path)
          /\ fileExists' = [fileExists EXCEPT ![db_path] = TRUE]
          /\ fill' = FillLocals0
          /\ inner' = 0
          /\ written' = 0
          /\ progress' = 0
          /\ pc' = "fill_while"
          /\ UNCHANGED <<cfg, target_size_gb, main_pc, err, table, warnings, txns,
                         bench, timing, max_key, stats, log, inserts, commits, out>>
       \/ Fail("create")

\* line 83: the loop test
FillWhile ==
    /\ pc = "fill_while"
    /\ pc' = IF FillContinue(fill) THEN "fill_begin" ELSE "fill_return"
    /\ UNCHANGED <<cfg, target_size_gb, main_pc, err, fileExists, table, warnings,
                   openDbs, txns, fill, inner, written, bench, timing, max_key,
                   stats, log, inserts, commits, progress, out>>

\* line 84: db.begin_write()?
FillBegin ==
    /\ pc = "fill_begin"
    /\ \/ /\ txns' = Append(txns, BeginWrite(db_path, "fill_database"))
          /\ pc' = "fill_open_table"
          /\ UNCHANGED <<cfg, target_size_gb, main_pc, err, fileExists, table,
                         warnings, openDbs, fill, inner, written, bench, timing,
                         max_key, stats, log, inserts, commits, progress, out>>
       \/ Fail("begin_write")

\* line 87: write_txn.open_table(TABLE)?
FillOpenTable ==
    /\ pc = "fill_open_table"
    /\ \/ /\ txns' = WithTxn([write_txn EXCEPT !.table_open = TRUE])
          /\ inner' = 0
          /\ pc' = "fill_insert"
          /\ UNCHANGED <<cfg, target_size_gb, main_pc, err, fileExists, table,
                         warnings, openDbs, fill, written, bench, timing, max_key,
                         stats, log, inserts, commits, progress, out>>
       \/ Fail("open_table")

\* lines 89-95: one iteration of the batch loop; after the last one the
\* block ends and `table` is dropped
FillInsert ==
    /\ pc = "fill_insert"
    /\ inner < cfg.BATCH_SIZE
    /\ \/ /\ txns' = WithTxn([write_txn EXCEPT
                                !.pending = TableInsert(@, fill.key_counter),
                                !.table_open = (inner + 1 < cfg.BATCH_SIZE)])
          /\ inserts' = [inserts EXCEPT ![db_path] =
                            Append(@, <<"fill_database", fill.key_counter>>)]
          /\ written' = CountInsert(written, fill.key_counter)
          /\ fill' = FillCount(fill)
          /\ inner' = inner + 1
          /\ pc' = IF inner + 1 < cfg.BATCH_SIZE THEN "fill_insert" ELSE "fill_commit"
          /\ UNCHANGED <<cfg, target_size_gb, main_pc, err, fileExists, table,
                         warnings, openDbs, bench, timing, max_key, stats, log,
                         commits, progress, out>>
       \/ Fail("insert")

\* lines 97-110: write_txn.commit()?, count the batch, maybe print progress
FillCommit ==
    /\ pc = "fill_commit"
    /\ \/ /\ table' = [table EXCEPT ![db_path] = @ \cup write_txn.pending]
          /\ commits' = Append(commits, write_txn)
          /\ txns' = EndTxn(txns)
          /\ fill' = FillBatchDone(fill)
          /\ progress' = IF FillProgressDue(FillBatchDone(fill))
                         THEN progress + 1 ELSE progress
          /\ pc' = "fill_while"
          /\ UNCHANGED <<cfg, target_size_gb, main_pc, err, fileExists, warnings,
                         openDbs, inner, written, bench, timing, max_key, stats,
                         log, inserts, out>>
       \/ Fail("commit")

\* lines 113-122: Ok(key_counter); `db` is dropped; main binds the result
FillReturn ==
    /\ pc = "fill_return"
    /\ max_key' = [max_key EXCEPT ![db_path] = Some(fill.key_counter)]
    /\ openDbs' = DropDb(openDbs, db_path)
    /\ Return
    /\ UNCHANGED <<cfg, target_size_gb, err, fileExists, table, warnings, txns,
                   fill, inner, written, bench, timing, stats, inserts, commits,
                   progress, out>>


\* ---------------------------------------------------- benchmark_writes

\* the sample recorded twice
MutPushTwice(durations, duration) == Append(Append(durations, duration), duration)

\* durations.push(duration)
Push(durations, duration) == Append(durations, duration)

\* lines 125-144: create the store, initialise the locals
BenchCreate ==
    /\ pc = "bench_create"
    /\ \/ /\ openDbs' = OpenDb(openDbs, db_path)
          /\ fileExists' = [fileExists EXCEPT ![db_path] = TRUE]
          /\ bench' = [durations |-> <<>>, key_counter |-> StartKey(db_path), i |-> 0]
          /\ progress' = 0
          /\ pc' = "bench_for"
          /\ UNCHANGED <<cfg, target_size_gb, main_pc, err, table, warnings, txns,
                         fill, inner, written, timing, max_key, stats, log,
                         inserts, commits, out>>
       \/ Fail("create")

\* lines 146-149: the loop test; an iteration generates its value and
\* takes `start`
BenchFor ==
    /\ pc = "bench_for"
    /\ IF bench.i < num_writes
       THEN pc' = "bench_begin" /\ timing' = TRUE
       ELSE pc' = "bench_return" /\ timing' = timing
    /\ UNCHANGED <<cfg, target_size_gb, main_pc, err, fileExists, table, warnings,
                   openDbs, txns, fill, inner, written, bench, max_key, stats,
                   log, inserts, commits, progress, out>>

\* line 151: db.begin_write()?
BenchBegin ==
    /\ pc = "bench_begin"
    /\ \/ /\ txns' = Append(txns, BeginWrite(db_path, "benchmark_writes"))
          /\ pc' = "bench_set_quick_repair"
          /\ UNCHANGED <<cfg, target_size_gb, main_pc, err, fileExists, table,
                         warnings, openDbs, fill, inner, written, bench, timing,
                         max_key, stats, log, inserts, commits, progress, out>>
       \/ Fail("begin_write")

\* line 152: write_txn.set_quick_repair(quick_repair)
BenchSetQuickRepair ==
    /\ pc = "bench_set_quick_repair"
    /\ txns' = WithTxn([write_txn EXCEPT !.quick_repair = quick_repair,
                                          !.quick_repair_set = TRUE])
    /\ pc' = "bench_open_table"
    /\ UNCHANGED <<cfg, target_size_gb, main_pc, err, fileExists, table, warnings,
                   openDbs, fill, inner, written, bench, timing, max_key, stats,
                   log, inserts, commits, progress, out>>

\* line 154: write_txn.open_table(TABLE)?
BenchOpenTable ==
    /\ pc = "bench_open_table"
    /\ \/ /\ txns' = WithTxn([write_txn EXCEPT !.table_open = TRUE])
          /\ pc' = "bench_insert"
          /\ UNCHANGED <<cfg, target_size_gb, main_pc, err, fileExists, table,
                         warnings, openDbs, fill, inner, written, bench, timing,
                         max_key, stats, log, inserts, commits, progress, out>>
       \/ Fail("open_table")

\* lines 155-156: table.insert(key_counter, value)?; the block ends and
\* `table` is dropped
BenchInsert ==
    /\ pc = "bench_insert"
    /\ \/ /\ txns' = WithTxn([write_txn EXCEPT
                                !.pending = TableInsert(@, bench.key_counter),
                                !.table_open = FALSE])
          /\ inserts' = [inserts EXCEPT ![db_path] =
                            Append(@, <<"benchmark_writes", bench.key_counter>>)]
          /\ pc' = "bench_commit"
          /\ UNCHANGED <<cfg, target_size_gb, main_pc, err, fileExists, table,
                         warnings, openDbs, fill, inner, written, bench, timing,
                         max_key, stats, log, commits, progress, out>>
       \/ Fail("insert")

\* line 157: write_txn.commit()?
BenchCommit ==
    /\ pc = "bench_commit"
    /\ \/ /\ table' = [table EXCEPT ![db_path] = @ \cup write_txn.pending]
          /\ commits' = Append(commits, write_txn)
          /\ txns' = EndTxn(txns)
          /\ pc' = "bench_push"
          /\ UNCHANGED <<cfg, target_size_gb, main_pc, err, fileExists, warnings,
                         openDbs, fill, inner, written, bench, timing, max_key,
                         stats, log, inserts, progress, out>>
       \/ Fail("commit")

\* lines 159-166: read the clock, record the sample, advance the key,
\* maybe print progress
BenchPush ==
    /\ pc = "bench_push"
    /\ \E duration \in 0..MaxDur :
        bench' = [bench EXCEPT !.durations = Push(@, duration),
                               !.key_counter = @ + 1,
                               !.i = @ + 1]
    /\ timing' = FALSE
    /\ progress' = IF (bench.i + 1) % BENCH_PROGRESS_EVERY = 0
                   THEN progress + 1 ELSE progress
    /\ pc' = "bench_for"
    /\ UNCHANGED <<cfg, target_size_gb, main_pc, err, fileExists, table, warnings,
                   openDbs, txns, fill, inner, written, max_key, stats, log,
                   inserts, commits, out>>

\* line 169: Ok(BenchmarkStats::new(&durations)); `db` is dropped; main
\* binds the result
BenchReturn ==
    /\ pc = "bench_return"
    /\ stats' = [stats EXCEPT ![db_path] = Some(BenchmarkStats_new(bench.durations))]
    /\ openDbs' = DropDb(openDbs, db_path)
    /\ Return
    /\ UNCHANGED <<cfg, target_size_gb, err, fileExists, table, warnings, txns,
                   fill, inner, written, bench, timing, max_key, inserts, commits,
                   progress, out>>

\* ------------------------------------------------------------- report

\* main, lines 301-348: both statistics blocks, then the comparison
\* (throughput ratio false / true, latency difference true - false); Ok(())
Report ==
    /\ pc = "report"
    /\ LET stats_individual_false == stats[db_quick_repair_false][1]
           stats_individual_true == stats[db_quick_repair_true][1]
       IN  out' = << <<"stats", db_quick_repair_false, stats_individual_false>>,
                     <<"stats", db_quick_repair_true, stats_individual_true>>,
                     <<"comparison",
                       <<stats_individual_false.writes_per_second,
                         stats_individual_true.writes_per_second>>,
                       stats_individual_true.avg_write_time
                         - stats_individual_false.avg_write_time>> >>
    /\ pc' = "exit_ok"
    /\ UNCHANGED <<cfg, target_size_gb, main_pc, err, fileExists, table, warnings,
                   openDbs, txns, fill, inner, written, bench, timing, max_key,
                   stats, log, inserts, commits, progress>>

\* ------------------------------------------------------ specification

\* the state every specification starts its unused parts in
Idle ==
    /\ err = NoErr
    /\ warnings = <<>>
    /\ openDbs = {}
    /\ txns = <<>>
    /\ fill = FillLocals0
    /\ inner = 0
    /\ written = 0
    /\ bench = [durations |-> <<>>, key_counter |-> 0, i |-> 0]
    /\ timing = FALSE
    /\ max_key = [p \in Paths |-> None]
    /\ stats = [p \in Paths |-> None]
    /\ inserts = [p \in Paths |-> <<>>]
    /\ commits = <<>>
    /\ progress = 0
    /\ out = <<>>

\* main, lines 238-251: the argument is parsed; either file may be left
\* over from an earlier run, holding that run's records 0..n-1
Init ==
    /\ cfg = DriverCfg
    /\ target_size_gb \in 0..MaxG
    /\ fileExists \in [Paths -> BOOLEAN]
    /\ table \in [Paths -> {0..(n - 1) : n \in 0..MaxOld}]
    /\ \A p \in Paths : ~fileExists[p] => table[p] = {}
    /\ main_pc = 1
    /\ pc = Entry(MainOrder[1].op)
    /\ log = << <<MainOrder[1].op, MainOrder[1].db_path>> >>
    /\ Idle

Next ==
    \/ CleanupDb
    \/ FillCreate \/ FillWhile \/ FillBegin \/ FillOpenTable \/ FillInsert
    \/ FillCommit \/ FillReturn
    \/ BenchCreate \/ BenchFor \/ BenchBegin \/ BenchSetQuickRepair
    \/ BenchOpenTable \/ BenchInsert \/ BenchCommit \/ BenchPush \/ BenchReturn
    \/ Report

Spec == Init /\ [][Next]_vars


\* ------------------------------------------- fill_database's arithmetic

\* the index in MainOrder of main's first fill_database call
FirstFill == CHOOSE k \in 1..Len(MainOrder) :
    /\ MainOrder[k].op = "fill_database"
    /\ \A j \in 1..(k - 1) : MainOrder[j].op # "fill_database"

\* the configurations and arguments SpecFill runs fill_database with: the
\* program's constants with 0 and 1 GiB, and every scaled configuration
FillInputs ==
    ({RealCfg} \X {0, 1}) \cup (SmallCfgs \X (0..MaxG))

\* fill_database entered with its store created (lines 64-81)
InitFill ==
    /\ \E input \in FillInputs : cfg = input[1] /\ target_size_gb = input[2]
    /\ main_pc = FirstFill
    /\ pc = "fill_while"
    /\ fileExists = [p \in Paths |-> p = db_path]
    /\ table = [p \in Paths |-> {}]
    /\ log = <<>>
    /\ Idle

\* lines 83-111 with every engine call succeeding: one iteration of the
\* while loop (begin_write, the batch of inserts, commit, the counters)
FillIterate ==
    /\ pc = "fill_while"
    /\ FillContinue(fill)
    /\ LET after == FillBatch(<<fill, written>>, cfg.BATCH_SIZE)
       IN  /\ fill' = FillBatchDone(after[1])
           /\ written' = after[2]
           /\ progress' = IF FillProgressDue(FillBatchDone(after[1]))
                          THEN progress + 1 ELSE progress
    /\ UNCHANGED <<cfg, target_size_gb, main_pc, pc, err, fileExists, table,
                   warnings, openDbs, txns, inner, bench, timing, max_key, stats,
                   log, inserts, commits, out>>

\* lines 83 and 113-122: the loop ends and Ok(key_counter) is returned
FillFinish ==
    /\ pc = "fill_while"
    /\ ~FillContinue(fill)
    /\ max_key' = [max_key EXCEPT ![db_path] = Some(fill.key_counter)]
    /\ pc' = "fill_returned"
    /\ UNCHANGED <<cfg, target_size_gb, main_pc, err, fileExists, table, warnings,
                   openDbs, txns, fill, inner, written, bench, timing, stats, log,
                   inserts, commits, progress, out>>

NextFill == FillIterate \/ FillFinish

SpecFill == InitFill /\ [][NextFill]_vars

\* ------------------------------------------------- BenchmarkStats::new

RECURSIVE SeqsOf(_, _)
\* the sequences of exactly n elements of S
SeqsOf(S, n) ==
    IF n = 0 THEN {<<>>}
    ELSE {Append(s, x) : s \in SeqsOf(S, n - 1), x \in S}

\* a non-empty sequence of durations is at hand
InitStats ==
    /\ cfg = DriverCfg
    /\ target_size_gb = 0
    /\ main_pc = 1
    /\ pc = "stats_new"
    /\ fileExists = [p \in Paths |-> FALSE]
    /\ table = [p \in Paths |-> {}]
    /\ log = <<>>
    /\ err = NoErr
    /\ warnings = <<>>
    /\ openDbs = {}
    /\ txns = <<>>
    /\ fill = FillLocals0
    /\ inner = 0
    /\ written = 0
    /\ \E n \in 1..MaxLen : \E d \in SeqsOf(0..MaxStatDur, n) :
        bench = [durations |-> d, key_counter |-> 0, i |-> n]
    /\ timing = FALSE
    /\ max_key = [p \in Paths |-> None]
    /\ stats = [p \in Paths |-> None]
    /\ inserts = [p \in Paths |-> <<>>]
    /\ commits = <<>>
    /\ progress = 0
    /\ out = <<>>

\* BenchmarkStats::new(&durations), lines 24-39
StatsNew ==
    /\ pc = "stats_new"
    /\ stats' = [stats EXCEPT ![db_quick_repair_false] =
                            Some(BenchmarkStats_new(bench.durations))]
    /\ pc' = "stats_done"
    /\ UNCHANGED <<cfg, target_size_gb, main_pc, err, fileExists, table, warnings,
                   openDbs, txns, fill, inner, written, bench, timing, max_key,
                   log, inserts, commits, progress, out>>

NextStats == StatsNew

SpecStats == InitStats /\ [][NextStats]_vars


\* -------------------------------------------------------------- claims

\* ceil(a / b) and n rounded up to a multiple of m
CeilDiv(a, b) == (a + b - 1) \div b
RoundUpTo(n, m) == CeilDiv(n, m) * m

\* C1: when fill_database returns Ok for target size G and value size V, the
\* key it returns is ceil(G * GiB / V) rounded up to a multiple of
\* BATCH_SIZE and total_bytes >= G * GiB; for G = 0 the loop body never
\* ran and 0 is returned.
C1_FillResult ==
    pc = "fill_returned" =>
        /\ max_key[db_path]
             = Some(RoundUpTo(CeilDiv(target_size_gb * cfg.GIB, cfg.VALUE_SIZE), cfg.BATCH_SIZE))
        /\ fill.total_bytes >= target_size_gb * cfg.GIB
        /\ target_size_gb = 0 => max_key[db_path] = Some(0) /\ fill.batch_counter = 0

\* a fill that took several batches and overshot a target that is no
\* multiple of the batch's bytes has returned
C1_Witness ==
    /\ pc = "fill_returned"
    /\ target_size_gb > 0
    /\ fill.batch_counter >= 2
    /\ fill.total_bytes > target_size_gb * cfg.GIB

\* C3: with 1 GiB, 4096-byte values and batches of 1000 the filler does not
\* stop before 262144 records are written, and the key it returns is the
\* number of records it inserted.
C3_OneGiB ==
    (cfg = RealCfg /\ target_size_gb = 1) =>
        /\ (pc = "fill_while" /\ written < GIB \div VALUE_SIZE) => FillContinue(fill)
        /\ pc = "fill_returned" =>
            /\ written >= GIB \div VALUE_SIZE
            /\ max_key[db_path] = Some(written)

\* the 1 GiB fill of the real configuration has returned, 263 batches in
C3_Witness ==
    /\ pc = "fill_returned"
    /\ cfg = RealCfg
    /\ target_size_gb = 1
    /\ fill.batch_counter = 263
    /\ written = 263000

\* C5: BenchmarkStats::new on a non-empty sequence gives min <= avg <= max,
\* with total the sum of the samples and avg the integer quotient of total
\* by the number of samples.
C5_StatsOrdered ==
    pc = "stats_done" =>
        LET s == stats[db_quick_repair_false][1]
            n == Len(bench.durations)
        IN  /\ s.min_write_time <= s.avg_write_time
            /\ s.avg_write_time <= s.max_write_time
            /\ s.total_duration = SumSeq(bench.durations)
            /\ s.avg_write_time * n <= s.total_duration
            /\ s.total_duration < (s.avg_write_time + 1) * n

\* statistics of several unequal samples whose total the count does not
\* divide have been computed
C5_Witness ==
    /\ pc = "stats_done"
    /\ Len(bench.durations) >= 2
    /\ stats[db_quick_repair_false][1].min_write_time
         < stats[db_quick_repair_false][1].avg_write_time
    /\ stats[db_quick_repair_false][1].avg_write_time
         < stats[db_quick_repair_false][1].max_write_time
    /\ stats[db_quick_repair_false][1].total_duration % Len(bench.durations) # 0

\* C2: on each store the keys inserted are pairwise distinct, every key
\* benchmark_writes inserts is greater than every key fill_database
\* inserted, and the benchmark's keys start at the key the filler returned.
C2_NoCollision ==
    \A p \in Paths :
        LET ins == inserts[p]
        IN  /\ \A a, b \in 1..Len(ins) : a < b => ins[a][2] # ins[b][2]
            /\ \A a, b \in 1..Len(ins) :
                 (ins[a][1] = "fill_database" /\ ins[b][1] = "benchmark_writes")
                     => ins[a][2] < ins[b][2]
            /\ \A b \in 1..Len(ins) :
                 ins[b][1] = "benchmark_writes" => ins[b][2] >= max_key[p][1]

\* a store holds this run's fill inserts and its benchmark inserts
C2_Witness ==
    \E p \in Paths : \E a, b \in 1..Len(inserts[p]) :
        /\ inserts[p][a][1] = "fill_database"
        /\ inserts[p][b][1] = "benchmark_writes"
        /\ pc = "exit_ok"

\* the commits benchmark_writes made on store p, in order
BenchCommits(p) ==
    SelectSeq(commits, LAMBDA c : c.caller = "benchmark_writes" /\ c.db_path = p)

\* C4: benchmark_writes for N writes returns with exactly N samples, one per
\* committed transaction; each of those transactions inserted exactly one
\* record, at the next sequential key; a sample is pushed only after its
\* transaction committed.
C4_OneSamplePerCommit ==
    /\ \A p \in Paths :
        /\ stats[p] # None =>
            /\ stats[p][1].writes_per_second[1] = num_writes
            /\ Len(BenchCommits(p)) = num_writes
        /\ \A k \in 1..Len(BenchCommits(p)) :
             BenchCommits(p)[k].pending = {max_key[p][1] + k - 1}
    /\ pc \in {"bench_for", "bench_begin", "bench_set_quick_repair",
               "bench_open_table", "bench_insert", "bench_commit", "bench_return"}
         => Len(bench.durations) = Len(BenchCommits(db_path))
    /\ pc = "bench_push" => Len(bench.durations) + 1 = Len(BenchCommits(db_path))
    /\ pc = "bench_return" => Len(bench.durations) = num_writes

\* both benchmarks have returned their statistics
C4_Witness ==
    /\ stats[db_quick_repair_false] # None
    /\ stats[db_quick_repair_true] # None
    /\ Len(BenchCommits(db_quick_repair_true)) = num_writes

\* C10: whenever main's benchmark reaches BenchmarkStats::new, the sequence
\* it passes holds exactly BENCHMARK_WRITES samples, and that is more than 0.
C10_StatsInputFull ==
    pc = "bench_return" =>
        /\ Len(bench.durations) = cfg.BENCHMARK_WRITES
        /\ Len(bench.durations) > 0

\* the second benchmark is about to aggregate its samples
C10_Witness ==
    /\ pc = "bench_return"
    /\ db_path = db_quick_repair_true
    /\ bench.durations # <<>>

\* the errors the engine's calls return
EngineErrors == {"create", "begin_write", "open_table", "insert", "commit"}

\* C6: an error from create, begin_write, open_table, insert or commit, in
\* either phase, ends the run at once with that error: the failed call
\* changed nothing, nothing happens after it (no further step, no retry),
\* and no statistics block or comparison has been printed.
C6_FatalErrors ==
    /\ [](err # NoErr =>
            /\ err \in EngineErrors
            /\ pc = "exit_err"
            /\ out = <<>>
            /\ openDbs = {}
            /\ txns = <<>>)
    /\ [](out # <<>> => err = NoErr /\ pc = "exit_ok")
    /\ [][/\ err # NoErr => UNCHANGED vars
          /\ (err = NoErr /\ err' # NoErr) =>
                UNCHANGED <<table, inserts, commits, max_key, stats, log, main_pc, out>>]_vars

\* the second benchmark failed after the first one's statistics were ready
C6_Witness ==
    /\ err = "commit"
    /\ pc = "exit_err"
    /\ Call.op = "benchmark_writes"
    /\ stats[db_quick_repair_false] # None
    /\ bench.durations # <<>>

\* C7: a removal that fails is warned about and nothing more: each
\* cleanup_db call, whatever its outcome, hands over to main's next call
\* (the second cleanup, then the fill of the first store), and no run ends
\* with an error that comes from the cleanup.
C7_CleanupNonFatal ==
    /\ [][pc = "cleanup_db" =>
            /\ err' = NoErr
            /\ main_pc' = main_pc + 1
            /\ pc' = (IF main_pc = 1 THEN "cleanup_db" ELSE "fill_create")
            /\ Len(warnings') = Len(warnings) + (IF fileExists'[db_path] = fileExists[db_path] THEN 1 ELSE 0)]_vars
    /\ [](err # NoErr => err \in EngineErrors /\ Call.op # "cleanup_db")
    /\ []((pc = "fill_create" /\ db_path = db_quick_repair_false) => err = NoErr)

\* a run whose two removals both failed has filled and benchmarked both
\* stores and ended cleanly
C7_Witness ==
    /\ Len(warnings) = 2
    /\ pc = "exit_ok"
    /\ max_key[db_quick_repair_false] # None
    /\ max_key[db_quick_repair_true] # None

\* the order of main's calls
ExpectedOrder ==
    << <<"cleanup_db", db_quick_repair_false>>, <<"cleanup_db", db_quick_repair_true>>,
       <<"fill_database", db_quick_repair_false>>, <<"fill_database", db_quick_repair_true>>,
       <<"benchmark_writes", db_quick_repair_false>>,
       <<"benchmark_writes", db_quick_repair_true>>,
       <<"report", NoPath>> >>

\* the place of a commit in the order fill A, fill B, benchmark A, benchmark B
CommitRank(c) ==
    (IF c.caller = "fill_database" THEN 0 ELSE 2)
        + (IF c.db_path = db_quick_repair_false THEN 1 ELSE 2)

\* C8: the calls main has made are a prefix of cleanup, cleanup, fill A,
\* fill B, benchmark A, benchmark B, report, and all of it once the run
\* succeeded; the commits follow that order; every benchmark transaction on
\* the quick_repair_false store commits with the mode off and every one on
\* the quick_repair_true store with it on, the mode having been set before
\* the transaction's table was opened.
C8_LinearOrder ==
    /\ Len(log) <= Len(ExpectedOrder)
    /\ \A k \in 1..Len(log) : log[k] = ExpectedOrder[k]
    /\ pc = "exit_ok" => log = ExpectedOrder
    /\ \A a, b \in 1..Len(commits) :
         a < b => CommitRank(commits[a]) <= CommitRank(commits[b])
    /\ \A k \in 1..Len(commits) :
         commits[k].caller = "benchmark_writes" =>
            /\ commits[k].quick_repair_set
            /\ commits[k].quick_repair = (commits[k].db_path = db_quick_repair_true)
    /\ \A k \in 1..Len(txns) :
         (txns[k].caller = "benchmark_writes"
            /\ (txns[k].table_open \/ txns[k].pending # {})) =>
            /\ txns[k].quick_repair_set
            /\ txns[k].quick_repair = (txns[k].db_path = db_quick_repair_true)

\* a run that filled and benchmarked both stores has printed its report
C8_Witness ==
    /\ pc = "exit_ok"
    /\ out # <<>>
    /\ target_size_gb >= 1
    /\ \E k \in 1..Len(commits) :
         commits[k].caller = "benchmark_writes" /\ commits[k].quick_repair

\* C9: at most one Database handle is open and at most one write
\* transaction is live; the handle is the current call's and the
\* transaction is on it; between calls, and once the run has ended,
\* no handle is open and no transaction is live.
C9_OneStoreAtATime ==
    /\ Cardinality(openDbs) <= 1
    /\ Len(txns) <= 1
    /\ openDbs \subseteq {db_path}
    /\ \A k \in 1..Len(txns) : txns[k].db_path \in openDbs
    /\ pc \in {"cleanup_db", "fill_create", "bench_create", "report", "exit_ok", "exit_err"}
         => openDbs = {} /\ txns = <<>>

\* the second store is open with a transaction in progress, the first
\* store having been filled and closed
C9_Witness ==
    /\ openDbs = {db_quick_repair_true}
    /\ Len(txns) = 1
    /\ max_key[db_quick_repair_false] # None
    /\ write_txn.pending # {}

====
